---- MODULE Spec2Model ----
(***************************************************************************)
(* Model of version_support.py: the package index is listed, one           *)
(* read_package task per identifier is submitted to a thread pool, and the *)
(* main thread folds the outcomes into PKG_INFO and VERSIONS in completion *)
(* order before writing both to disk.                                      *)
(*                                                                         *)
(* A Python string that the code takes apart (a classifier) is a sequence  *)
(* of atoms: the separator "::", the blank " ", and words that contain     *)
(* neither.  A string the code only compares or uses as a key is a TLA+    *)
(* string.                                                                 *)
(***************************************************************************)
EXTENDS Integers, Sequences, FiniteSets, TLC

\* ------------------------------------------------------------------ bounds
MaxPkgs == 2            \* longest identifier list the index returns
CpuCount == 1           \* what mp.cpu_count() returns on the host that is modelled

\* --------------------------------------------------------------- constants
\* MAX_PROCESSES = mp.cpu_count()*8
MAX_PROCESSES == CpuCount * 8

None == "None"          \* Python's None (no error string is "None")
OK == 200

Ids == {"a", "b"}       \* hyperlink targets the index may list

\* ------------------------------------------------------- classifier strings
SP == " "
SEP == "::"
WS == {SP}

PL == "Programming Language"

RECURSIVE Cls(_)
\* the classifier "p1 :: p2 :: ... :: pn" as atoms
Cls(parts) ==
    IF Len(parts) = 0 THEN << >>
    ELSE IF Len(parts) = 1 THEN <<parts[1]>>
    ELSE <<parts[1], SP, SEP, SP>> \o Cls(Tail(parts))

EndsWithPython == {"Python", "IPython"}
StartsWithDigit == {"2", "2.7", "3", "3.5", "3.6"}

\* re.search('Python :: \d(\.\d)?', c)
Matches(c) ==
    \E i \in 1..Len(c) :
        /\ i + 4 <= Len(c)
        /\ c[i] \in EndsWithPython
        /\ c[i+1] = SP
        /\ c[i+2] = SEP
        /\ c[i+3] = SP
        /\ c[i+4] \in StartsWithDigit

\* position of the leftmost match of '\s::\s' in c, 0 if there is none
FirstSep(c) ==
    LET hits == {i \in 1..Len(c) : /\ i + 2 <= Len(c)
                                   /\ c[i] \in WS
                                   /\ c[i+1] = SEP
                                   /\ c[i+2] \in WS}
    IN  IF hits = {} THEN 0 ELSE CHOOSE i \in hits : \A j \in hits : i <= j

RECURSIVE Split(_)
\* re.split('\s::\s', v): the parts between non-overlapping separators
Split(c) ==
    LET i == FirstSep(c)
    IN  IF i = 0 THEN <<c>>
        ELSE <<SubSeq(c, 1, i - 1)>> \o Split(SubSeq(c, i + 3, Len(c)))

RECURSIVE Strip(_)
\* str.strip(): drop leading and trailing whitespace
Strip(p) ==
    IF Len(p) = 0 THEN p
    ELSE IF p[1] \in WS THEN Strip(Tail(p))
    ELSE IF p[Len(p)] \in WS THEN Strip(SubSeq(p, 1, Len(p) - 1))
    ELSE p

RECURSIVE Str(_)
\* the Python string a sequence of atoms spells
Str(p) == IF Len(p) = 0 THEN "" ELSE p[1] \o Str(Tail(p))

\* Filter without the test: every classifier is kept
FilterAll(cs) == cs

RECURSIVE Filter(_)
\* [c for c in classifiers if re.search(...)]
Filter(cs) ==
    IF Len(cs) = 0 THEN << >>
    ELSE IF Matches(Head(cs)) THEN <<Head(cs)>> \o Filter(Tail(cs))
    ELSE Filter(Tail(cs))

\* re.split(...)[2] raises IndexError on a classifier of fewer than 3 parts
GetVersionsRaises(cs) ==
    \E k \in 1..Len(Filter(cs)) : Len(Split(Filter(cs)[k])) < 3

\* [re.split('\s::\s', v)[2].strip() for v in versions]
Tokens(cs) ==
    [k \in 1..Len(Filter(cs)) |-> Str(Strip(Split(Filter(cs)[k])[3]))]

Range(s) == {s[k] : k \in 1..Len(s)}

\* ListOfSet without the set: the list as it is, repeats included
ListAsIs(xs) == {xs}

\* every list that list(set(xs)) can be: the distinct elements in any order
ListOfSet(xs) ==
    {s \in [1..Cardinality(Range(xs)) -> Range(xs)] : Range(s) = Range(xs)}

\* the lists get_versions(classifiers) can return (when it does not raise)
get_versions(cs) == ListOfSet(Tokens(cs))

\* ------------------------------------------------------------ HTTP responses
\* A response of the metadata API.  transport = TRUE: requests.get raises.
\* json = FALSE: the body is not JSON.  top: the type of the parsed body.
\* info: "missing" | "null" | "empty" ({}) | "str" | "dict" (non-empty).
\* classifiers: "missing" | "null" | "int" (a non-zero number) | "list".
Resp(transport, status, json, top, info, classifiers, items) ==
    [transport |-> transport, status |-> status, json |-> json, top |-> top,
     info |-> info, classifiers |-> classifiers, items |-> items]

Py27 == Cls(<<PL, "Python", "2.7">>)
Py35 == Cls(<<PL, "Python", "3.5">>)
Py36Trail == Cls(<<PL, "Python", "3.6">>) \o <<SP>>
Py3Only == Cls(<<PL, "Python", "3", "Only">>)
License == Cls(<<"License", "OSI Approved", "MIT License">>)
PyShort == Cls(<<"Python", "3">>)
PyTotal == Cls(<<"a", "b", "total", "Python", "3">>)

IPy3 == Cls(<<"Framework", "IPython", "3">>)

WithClassifiers(items) == Resp(FALSE, OK, TRUE, "dict", "dict", "list", items)

RTransport  == Resp(TRUE, 0, FALSE, "dict", "missing", "missing", << >>)
R404        == Resp(FALSE, 404, TRUE, "dict", "dict", "list", <<Py27>>)
R500Html    == Resp(FALSE, 500, FALSE, "dict", "missing", "missing", << >>)
RHtml       == Resp(FALSE, OK, FALSE, "dict", "missing", "missing", << >>)
RList       == Resp(FALSE, OK, TRUE, "list", "missing", "missing", << >>)
RNoInfo     == Resp(FALSE, OK, TRUE, "dict", "missing", "missing", << >>)
RInfoEmpty  == Resp(FALSE, OK, TRUE, "dict", "empty", "missing", << >>)
RInfoStr    == Resp(FALSE, OK, TRUE, "dict", "str", "missing", << >>)
RClsMissing == Resp(FALSE, OK, TRUE, "dict", "dict", "missing", << >>)
RClsEmpty   == WithClassifiers(<< >>)
RClsInt     == Resp(FALSE, OK, TRUE, "dict", "dict", "int", << >>)
RNoMatch    == WithClassifiers(<<License>>)
RKnown      == WithClassifiers(<<Py27, License, Py35, Py35>>)
ROnly       == WithClassifiers(<<Py3Only, Py36Trail>>)
RShort      == WithClassifiers(<<PyShort>>)
RTotal      == WithClassifiers(<<PyTotal>>)

Responses ==
    {RTransport, R404, R500Html, RHtml, RList, RNoInfo, RInfoEmpty, RInfoStr,
     RClsMissing, RClsEmpty, RClsInt, RNoMatch, RKnown, ROnly, RShort, RTotal}

\* responses of the index: requests.get raises, a non-200 page, or a page
\* whose hyperlinks are any list of at most MaxPkgs identifiers
Lists == UNION {[1..n -> Ids] : n \in 0..MaxPkgs}

IndexResponses ==
    {[transport |-> TRUE, status |-> 0, links |-> << >>],
     [transport |-> FALSE, status |-> 404, links |-> << >>]}
    \cup {[transport |-> FALSE, status |-> OK, links |-> l] : l \in Lists}

\* -------------------------------------------------------------------- state
VARIABLES
    pc,         \* position of the main thread
    index,      \* what GET https://pypi.python.org/simple answers
    remote,     \* what GET .../pypi/<pkg>/json answers, per identifier
    pkgs,       \* the identifier list parsed from the index
    futures,    \* the submitted tasks, in submission order
    consumed,   \* the futures whose outcome the loop body has folded in, in order
    PKG_INFO,   \* dict: identifier -> PkgInfo
    VERSIONS,   \* defaultdict(lambda: 0): bucket -> count
    files       \* the output files written so far: name -> content

\* get_versions on its own: a classifier list, a rearrangement of it, and
\* what get_versions gave for each
VARIABLES
    classifiers,    \* the argument of get_versions
    rearranged,     \* a permutation of classifiers, or classifiers without repeats
    returned,       \* the outcome of get_versions(classifiers)
    returned2       \* the outcome of get_versions(rearranged)

\* learn_multiprocessing.py, Example 1
VARIABLES
    mpc,            \* position of the main process
    procs,          \* the spawned processes, in spawn order
    results         \* manager.list([None]*len(data))

vsVars == <<pc, index, remote, pkgs, futures, consumed, PKG_INFO, VERSIONS, files>>
gvVars == <<classifiers, rearranged, returned, returned2>>
mpVars == <<mpc, procs, results>>

vars == <<vsVars, gvVars, mpVars>>

PkgInfo(versions, error) == [versions |-> versions, error |-> error]

SkippingError == {"error retrieving metadata", "no info", "no classifiers"}

Running == {"get", "status", "info", "classifiers", "versions"}
Finished == {"done", "raised"}

\* a future as executor.submit creates it: queued, nothing evaluated yet.
\* guards and called record which guards of read_package were evaluated and
\* whether get_versions was called.
NewFuture(pkg) ==
    [pkg |-> pkg, pc |-> "queued", versions |-> << >>, error |-> None,
     guards |-> << >>, called |-> FALSE]

\* d[k] of a defaultdict(lambda: 0), without inserting the key
Get(d, k) == IF k \in DOMAIN d THEN d[k] ELSE 0

\* d[k] += 1 on a defaultdict(lambda: 0)
Inc(d, k) == [x \in DOMAIN d \cup {k} |-> IF x = k THEN Get(d, k) + 1 ELSE d[x]]

\* d[k] = v on a dict
Put(d, k, v) == [x \in DOMAIN d \cup {k} |-> IF x = k THEN v ELSE d[x]]

\* IncAll with the loop cut short: only the first version is counted
IncFirst(d, versions) ==
    IF Len(versions) = 0 THEN d ELSE Inc(d, Head(versions))

RECURSIVE IncAll(_, _)
\* for version in versions: d[version] += 1
IncAll(d, versions) ==
    IF Len(versions) = 0 THEN d
    ELSE IncAll(Inc(d, Head(versions)), Tail(versions))

\* Aggregate with the test on info.error inverted
AggregateSwapped(d, info) ==
    LET t == Inc(d, "total")
    IN  IF Len(info.versions) # 0
        THEN IncAll(Inc(t, "known"), info.versions)
        ELSE IF info.error = None \/ info.error = ""
             THEN Inc(t, "na")
             ELSE Inc(t, "nd_unk")

\* the tally after the loop body has folded one outcome into it
Aggregate(d, info) ==
    LET t == Inc(d, "total")
    IN  IF Len(info.versions) # 0
        THEN IncAll(Inc(t, "known"), info.versions)
        ELSE IF info.error = None \/ info.error = ""
             THEN Inc(t, "nd_unk")
             ELSE Inc(t, "na")

Empty == [x \in {} |-> 0]

\* get_versions has not been called
NotCalled == [state |-> "none", value |-> << >>]

\* the state of a program that is not run
GvIdle ==
    /\ classifiers = << >>
    /\ rearranged = << >>
    /\ returned = NotCalled
    /\ returned2 = NotCalled

MpIdle ==
    /\ mpc = "off"
    /\ procs = << >>
    /\ results = << >>

VsIdle ==
    /\ pc = "off"
    /\ index = [transport |-> TRUE, status |-> 0, links |-> << >>]
    /\ remote = [p \in Ids |-> RTransport]
    /\ pkgs = << >>
    /\ futures = << >>
    /\ consumed = << >>
    /\ PKG_INFO = Empty
    /\ VERSIONS = Empty
    /\ files = Empty

Init ==
    /\ pc = "index"
    /\ index \in IndexResponses
    /\ remote \in [Ids -> Responses]
    /\ pkgs = << >>
    /\ futures = << >>
    /\ consumed = << >>
    /\ PKG_INFO = Empty
    /\ VERSIONS = Empty
    /\ files = Empty
    /\ GvIdle
    /\ MpIdle

\* ------------------------------------------------------------- main thread
\* GetIndex that logs the bad status and goes on
GetIndexNoRaise ==
    /\ pc = "index"
    /\ pc' = IF index.transport THEN "aborted" ELSE "parse"
    /\ UNCHANGED <<index, remote, pkgs, futures, consumed, PKG_INFO, VERSIONS, files>>
    /\ UNCHANGED <<gvVars, mpVars>>

\* resp = requests.get(index); a failed GET or a non-200 status ends the run
GetIndex ==
    /\ pc = "index"
    /\ pc' = IF index.transport \/ index.status # OK THEN "aborted" ELSE "parse"
    /\ UNCHANGED <<index, remote, pkgs, futures, consumed, PKG_INFO, VERSIONS, files>>
    /\ UNCHANGED <<gvVars, mpVars>>

\* pkgs = [link.get('href') for link in soup.find_all('a')]
ParseIndex ==
    /\ pc = "parse"
    /\ pkgs' = index.links
    /\ pc' = IF Len(index.links) = 0 THEN "loop" ELSE "submit"
    /\ UNCHANGED <<index, remote, futures, consumed, PKG_INFO, VERSIONS, files>>
    /\ UNCHANGED <<gvVars, mpVars>>

\* executor.submit(read_package, pkg, id_) for the next identifier
Submit ==
    /\ pc = "submit"
    /\ Len(futures) < Len(pkgs)
    /\ futures' = Append(futures, NewFuture(pkgs[Len(futures) + 1]))
    /\ pc' = IF Len(futures') = Len(pkgs) THEN "loop" ELSE "submit"
    /\ UNCHANGED <<index, remote, pkgs, consumed, PKG_INFO, VERSIONS, files>>
    /\ UNCHANGED <<gvVars, mpVars>>

\* one iteration of the loop over as_completed: a finished future that was
\* not yet yielded, whose result() returns
Consume(i) ==
    /\ pc = "loop"
    /\ i \notin Range(consumed)
    /\ futures[i].pc = "done"
    /\ LET info == PkgInfo(futures[i].versions, futures[i].error)
       IN  /\ PKG_INFO' = Put(PKG_INFO, futures[i].pkg, info)
           /\ VERSIONS' = Aggregate(VERSIONS, info)
    /\ consumed' = Append(consumed, i)
    /\ UNCHANGED <<pc, index, remote, pkgs, futures, files>>
    /\ UNCHANGED <<gvVars, mpVars>>

\* as_completed yields a future whose result() re-raises the task's
\* exception: it leaves the loop and the with block
ConsumeRaised(i) ==
    /\ pc = "loop"
    /\ i \notin Range(consumed)
    /\ futures[i].pc = "raised"
    /\ pc' = "shutdown"
    /\ UNCHANGED <<index, remote, pkgs, futures, consumed, PKG_INFO, VERSIONS, files>>
    /\ UNCHANGED <<gvVars, mpVars>>

\* as_completed is exhausted; the with block shuts the executor down
ExitLoop ==
    /\ pc = "loop"
    /\ Len(consumed) = Len(pkgs)
    /\ pc' = "write"
    /\ UNCHANGED <<index, remote, pkgs, futures, consumed, PKG_INFO, VERSIONS, files>>
    /\ UNCHANGED <<gvVars, mpVars>>

\* executor.__exit__ with an exception in flight: shutdown(wait=True), then
\* the exception ends the run
Shutdown ==
    /\ pc = "shutdown"
    /\ \A i \in 1..Len(futures) : futures[i].pc \in Finished
    /\ pc' = "aborted"
    /\ UNCHANGED <<index, remote, pkgs, futures, consumed, PKG_INFO, VERSIONS, files>>
    /\ UNCHANGED <<gvVars, mpVars>>

\* json.dump(PKG_INFO, pkgfile); json.dump(VERSIONS, verfile)
WriteFiles ==
    /\ pc = "write"
    /\ files' = [f \in {"PKG_INFO.json", "VERSIONS.json"} |->
                    IF f = "PKG_INFO.json" THEN PKG_INFO ELSE VERSIONS]
    /\ pc' = "done"
    /\ UNCHANGED <<index, remote, pkgs, futures, consumed, PKG_INFO, VERSIONS>>
    /\ UNCHANGED <<gvVars, mpVars>>

\* ----------------------------------------------------- read_package (task i)
Response(i) == remote[futures[i].pkg]

\* Step of a task that counts itself in the shared tally
StepCounting(i, f) ==
    /\ futures' = [futures EXCEPT ![i] = f]
    /\ VERSIONS' = Inc(VERSIONS, "total")
    /\ UNCHANGED <<pc, index, remote, pkgs, consumed, PKG_INFO, files>>
    /\ UNCHANGED <<gvVars, mpVars>>

Step(i, f) ==
    /\ futures' = [futures EXCEPT ![i] = f]
    /\ UNCHANGED <<pc, index, remote, pkgs, consumed, PKG_INFO, VERSIONS, files>>
    /\ UNCHANGED <<gvVars, mpVars>>

\* Skip with a handler that does not record the reason
SkipLosesReason(f, reason) == [f EXCEPT !.pc = "done"]

\* raise SkippingError(reason), caught at the end of read_package, which
\* returns PkgInfo(versions, error)
Skip(f, reason) == [f EXCEPT !.error = reason, !.pc = "done"]

\* any other exception leaves read_package and is stored in the future
Raise(f) == [f EXCEPT !.pc = "raised"]

Evaluated(f, guard) == [f EXCEPT !.guards = Append(@, guard)]

\* Start of a pool that starts a thread for every task
StartUnbounded(i) ==
    /\ futures[i].pc = "queued"
    /\ \A j \in 1..(i - 1) : futures[j].pc # "queued"
    /\ Step(i, [futures[i] EXCEPT !.pc = "get"])

\* a free worker thread of the pool takes the task at the head of the work
\* queue, which is first in, first out
Start(i) ==
    /\ futures[i].pc = "queued"
    /\ \A j \in 1..(i - 1) : futures[j].pc # "queued"
    /\ Cardinality({j \in 1..Len(futures) : futures[j].pc \in Running}) < MAX_PROCESSES
    /\ Step(i, [futures[i] EXCEPT !.pc = "get"])

\* resp = requests.get(...); versions = []; error = None
Fetch(i) ==
    /\ futures[i].pc = "get"
    /\ Step(i, IF Response(i).transport
               THEN Raise(futures[i])
               ELSE [futures[i] EXCEPT !.pc = "status", !.versions = << >>,
                                       !.error = None])

\* CheckStatus that builds the SkippingError without raising it
CheckStatusNoRaise(i) ==
    /\ futures[i].pc = "status"
    /\ Step(i, [Evaluated(futures[i], "status") EXCEPT !.pc = "info"])

\* CheckStatus that records the reason and goes on to the next guard
CheckStatusRecordsAndContinues(i) ==
    /\ futures[i].pc = "status"
    /\ LET f == Evaluated(futures[i], "status")
       IN  Step(i, IF Response(i).status # OK
                   THEN [f EXCEPT !.error = "error retrieving metadata", !.pc = "info"]
                   ELSE [f EXCEPT !.pc = "info"])

\* if not resp.status_code == 200: raise SkippingError(...)
CheckStatus(i) ==
    /\ futures[i].pc = "status"
    /\ LET f == Evaluated(futures[i], "status")
       IN  Step(i, IF Response(i).status # OK
                   THEN Skip(f, "error retrieving metadata")
                   ELSE [f EXCEPT !.pc = "info"])

\* props = resp.json(); info = props.get('info'); if not info: raise ...
CheckInfo(i) ==
    /\ futures[i].pc = "info"
    /\ LET r == Response(i)
           f == Evaluated(futures[i], "info")
       IN  Step(i, IF ~r.json \/ r.top # "dict"
                   THEN Raise(futures[i])
                   ELSE IF r.info \in {"missing", "null", "empty"}
                   THEN Skip(f, "no info")
                   ELSE [f EXCEPT !.pc = "classifiers"])

\* classifiers = info.get('classifiers');
\* if not classifiers or not len(classifiers): raise ...
CheckClassifiers(i) ==
    /\ futures[i].pc = "classifiers"
    /\ LET r == Response(i)
           f == Evaluated(futures[i], "classifiers")
       IN  Step(i, IF r.info # "dict"
                   THEN Raise(futures[i])
                   ELSE IF r.classifiers = "int"
                   THEN Raise(f)
                   ELSE IF r.classifiers \in {"missing", "null"} \/ Len(r.items) = 0
                   THEN Skip(f, "no classifiers")
                   ELSE [f EXCEPT !.pc = "versions"])

\* versions = get_versions(classifiers); return PkgInfo(versions, error)
GetVersions(i) ==
    /\ futures[i].pc = "versions"
    /\ LET r == Response(i)
           f == [futures[i] EXCEPT !.called = TRUE]
       IN  IF GetVersionsRaises(r.items)
           THEN Step(i, Raise(f))
           ELSE \E vs \in get_versions(r.items) :
                    Step(i, [f EXCEPT !.versions = vs, !.pc = "done"])

read_package(i) ==
    \/ Fetch(i)
    \/ CheckStatus(i)
    \/ CheckInfo(i)
    \/ CheckClassifiers(i)
    \/ GetVersions(i)

Next ==
    \/ GetIndex
    \/ ParseIndex
    \/ Submit
    \/ \E i \in 1..Len(futures) : Start(i)
    \/ \E i \in 1..Len(futures) : read_package(i)
    \/ \E i \in 1..Len(futures) : Consume(i)
    \/ \E i \in 1..Len(futures) : ConsumeRaised(i)
    \/ ExitLoop
    \/ Shutdown
    \/ WriteFiles

Spec == Init /\ [][Next]_vars

TypeOK ==
    /\ pc \in {"index", "parse", "submit", "loop", "shutdown", "write", "done", "aborted"}
    /\ Len(futures) <= Len(pkgs)
    /\ Range(consumed) \subseteq 1..Len(futures)

\* ----------------------------------------------- more tasks than workers
Waiting == 1            \* how many links the long index has beyond MAX_PROCESSES

\* the runs of Spec, and a run over an index of MAX_PROCESSES + Waiting links whose
\* metadata requests all fail in transport
InitPool ==
    \/ Init
    \/ /\ pc = "index"
       /\ index = [transport |-> FALSE, status |-> OK,
                   links |-> [k \in 1..(MAX_PROCESSES + Waiting) |-> "a"]]
       /\ remote = [p \in Ids |-> RTransport]
       /\ pkgs = << >>
       /\ futures = << >>
       /\ consumed = << >>
       /\ PKG_INFO = Empty
       /\ VERSIONS = Empty
       /\ files = Empty
       /\ GvIdle
       /\ MpIdle

SpecPool == InitPool /\ [][Next]_vars

\* ------------------------------------------------- get_versions on its own
MaxCls == 3             \* longest classifier list given to get_versions

Classifiers == {Py27, Py35, Py36Trail, Py3Only, License, PyShort, PyTotal, IPy3}

ClassifierLists == UNION {[1..n -> Classifiers] : n \in 0..MaxCls}

\* the lists with the elements of cs in another order
Permuted(cs) ==
    {[k \in 1..Len(cs) |-> cs[p[k]]] :
        p \in {q \in [1..Len(cs) -> 1..Len(cs)] : Range(q) = 1..Len(cs)}}

RECURSIVE Distinct(_)
\* cs with every repeated classifier removed (the first occurrence stays)
Distinct(cs) ==
    IF Len(cs) = 0 THEN << >>
    ELSE LET front == Distinct(SubSeq(cs, 1, Len(cs) - 1))
         IN  IF cs[Len(cs)] \in Range(front) THEN front
             ELSE Append(front, cs[Len(cs)])

\* what a call get_versions(cs) can do: raise, or return one of its lists
Call(cs) ==
    IF GetVersionsRaises(cs)
    THEN {[state |-> "raised", value |-> << >>]}
    ELSE {[state |-> "returned", value |-> v] : v \in get_versions(cs)}

InitGV ==
    /\ VsIdle
    /\ MpIdle
    /\ classifiers \in ClassifierLists
    /\ rearranged \in Permuted(classifiers) \cup {Distinct(classifiers)}
    /\ returned = NotCalled
    /\ returned2 = NotCalled

\* versions = get_versions(classifiers)
CallGetVersions ==
    /\ returned = NotCalled
    /\ returned' \in Call(classifiers)
    /\ UNCHANGED <<classifiers, rearranged, returned2>>
    /\ UNCHANGED <<vsVars, mpVars>>

\* versions = get_versions(rearranged)
CallOnRearranged ==
    /\ returned2 = NotCalled
    /\ returned2' \in Call(rearranged)
    /\ UNCHANGED <<classifiers, rearranged, returned>>
    /\ UNCHANGED <<vsVars, mpVars>>

NextGV ==
    \/ CallGetVersions
    \/ CallOnRearranged

SpecGV == InitGV /\ [][NextGV]_vars

\* ------------------------------------ learn_multiprocessing.py, Example 1
DataLen == 8

\* data = range(8); list position k holds data[k - 1]
data == [k \in 1..DataLen |-> k - 1]

\* a slot of the shared list: None, or an integer
Unset == [isNone |-> TRUE, value |-> 0]
Value(v) == [isNone |-> FALSE, value |-> v]

\* mp.Process(target=expensive, args=(index, results, index))
NewProcess(idx) ==
    [index |-> idx, value |-> idx, result |-> Unset, pc |-> "started",
     joined |-> FALSE]

InitMP ==
    /\ VsIdle
    /\ GvIdle
    /\ mpc = "spawn"
    /\ procs = << >>
    /\ results = [k \in 1..DataLen |-> Unset]

\* one round of the first loop: create the next process and start it
Spawn ==
    /\ mpc = "spawn"
    /\ Len(procs) < DataLen
    /\ procs' = Append(procs, NewProcess(Len(procs)))
    /\ mpc' = IF Len(procs') = DataLen THEN "join" ELSE "spawn"
    /\ UNCHANGED results
    /\ UNCHANGED <<vsVars, gvVars>>

\* expensive, up to result = value*2
Work(k) ==
    /\ procs[k].pc = "started"
    /\ procs' = [procs EXCEPT ![k].result = Value(procs[k].value * 2),
                              ![k].pc = "test"]
    /\ UNCHANGED <<mpc, results>>
    /\ UNCHANGED <<vsVars, gvVars>>

\* TestResults that tests the computed value instead of the list
TestResult(k) ==
    /\ procs[k].pc = "test"
    /\ procs' = [procs EXCEPT ![k].pc = IF procs[k].result.value # 0
                                        THEN "store" ELSE "exited"]
    /\ UNCHANGED <<mpc, results>>
    /\ UNCHANGED <<vsVars, gvVars>>

\* if results: one request (__len__) to the manager; an empty list sends
\* the process to `return result`
TestResults(k) ==
    /\ procs[k].pc = "test"
    /\ procs' = [procs EXCEPT ![k].pc = IF Len(results) # 0
                                        THEN "store" ELSE "exited"]
    /\ UNCHANGED <<mpc, results>>
    /\ UNCHANGED <<vsVars, gvVars>>

\* results[index] = result: a second request (__setitem__) to the manager
Store(k) ==
    /\ procs[k].pc = "store"
    /\ results' = [results EXCEPT ![procs[k].index + 1] = procs[k].result]
    /\ procs' = [procs EXCEPT ![k].pc = "exited"]
    /\ UNCHANGED mpc
    /\ UNCHANGED <<vsVars, gvVars>>

\* one round of the second loop: proc.join() of the next process in order
Join(k) ==
    /\ mpc = "join"
    /\ ~procs[k].joined
    /\ \A j \in 1..(k - 1) : procs[j].joined
    /\ procs[k].pc = "exited"
    /\ procs' = [procs EXCEPT ![k].joined = TRUE]
    /\ mpc' = IF k = Len(procs) THEN "print" ELSE "join"
    /\ UNCHANGED results
    /\ UNCHANGED <<vsVars, gvVars>>

\* print(results)
PrintResults ==
    /\ mpc = "print"
    /\ mpc' = "done"
    /\ UNCHANGED <<procs, results>>
    /\ UNCHANGED <<vsVars, gvVars>>

NextMP ==
    \/ Spawn
    \/ \E k \in 1..Len(procs) : Work(k)
    \/ \E k \in 1..Len(procs) : TestResults(k)
    \/ \E k \in 1..Len(procs) : Store(k)
    \/ \E k \in 1..Len(procs) : Join(k)
    \/ PrintResults

SpecMP == InitMP /\ [][NextMP]_vars

\* ------------------------------------------------------------------- claims
Tally(k) == Get(VERSIONS, k)

Submitted == 1..Len(futures)

\* the loop body runs for future i in this step
ConsumedNow(i) == consumed' = Append(consumed, i)

Sentinels == {"total", "known", "nd_unk", "na"}

HasVersions(i) == Len(futures[i].versions) # 0

\* C1: after every iteration VERSIONS['total'] is the number of outcomes
\* consumed so far, and after the loop it is the length of the identifier
\* list, whatever the completion order.
C1_TotalCountsConsumed ==
    /\ Tally("total") = Len(consumed)
    /\ pc \in {"write", "done"} => Tally("total") = Len(pkgs)

\* C2: every consumed outcome increments exactly one of known, nd_unk and
\* na, so known + nd_unk + na = total after every iteration.
C2_BucketsPartitionTotal ==
    Tally("known") + Tally("nd_unk") + Tally("na") = Tally("total")

\* the number of increments bucket k receives from the outcomes of the
\* futures in S, counted without reference to any order
ExpectedCount(k, S) ==
    (IF k = "total" THEN Cardinality(S) ELSE 0)
    + (IF k = "known" THEN Cardinality({i \in S : HasVersions(i)}) ELSE 0)
    + (IF k = "nd_unk"
       THEN Cardinality({i \in S : ~HasVersions(i) /\ futures[i].error = None})
       ELSE 0)
    + (IF k = "na"
       THEN Cardinality({i \in S : ~HasVersions(i) /\ futures[i].error # None})
       ELSE 0)
    + Cardinality({i \in S : k \in Range(futures[i].versions)})

Keys(S) == Sentinels \cup UNION {Range(futures[i].versions) : i \in S}

\* C3: when the loop has consumed every future, the tally is the same for
\* every completion order: its buckets and counts are those fixed by the
\* outcomes alone.
C3_FinalTallyOrderFree ==
    pc \in {"write", "done"} =>
        /\ DOMAIN VERSIONS = {k \in Keys(Submitted) : ExpectedCount(k, Submitted) > 0}
        /\ \A k \in DOMAIN VERSIONS : VERSIONS[k] = ExpectedCount(k, Submitted)

\* a run that finished after consuming the second task before the first,
\* the two having different outcomes
C3_Witness ==
    /\ pc = "done"
    /\ consumed = <<2, 1>>
    /\ HasVersions(1)
    /\ futures[2].error = "no info"

NoClassifiers(r) ==
    \/ r.classifiers \in {"missing", "null"}
    \/ r.classifiers = "list" /\ Len(r.items) = 0

ParsedDict(r) == ~r.transport /\ r.status = OK /\ r.json /\ r.top = "dict"

\* C4 as stated: an item with an info field whose classifiers are absent or
\* empty gets the reason "no classifiers" and is counted in nd_unk, not in
\* na or known.
C4_NoClassifiersIsUnknown ==
    [][\A i \in Submitted :
        (/\ ConsumedNow(i)
         /\ ParsedDict(Response(i))
         /\ Response(i).info \in {"empty", "dict"}
         /\ NoClassifiers(Response(i)))
        => /\ futures[i].error = "no classifiers"
           /\ Get(VERSIONS', "nd_unk") = Tally("nd_unk") + 1
           /\ Get(VERSIONS', "na") = Tally("na")
           /\ Get(VERSIONS', "known") = Tally("known")]_vars

\* C4 amended: an item whose info is a non-empty mapping with classifiers
\* absent or empty gets the reason "no classifiers" and is counted in na,
\* not in nd_unk or known.
C4_NoClassifiersIsNa ==
    [][\A i \in Submitted :
        (/\ ConsumedNow(i)
         /\ ParsedDict(Response(i))
         /\ Response(i).info = "dict"
         /\ NoClassifiers(Response(i)))
        => /\ futures[i].error = "no classifiers"
           /\ Get(VERSIONS', "na") = Tally("na") + 1
           /\ Get(VERSIONS', "nd_unk") = Tally("nd_unk")
           /\ Get(VERSIONS', "known") = Tally("known")]_vars

C4_Witness ==
    \E i \in Range(consumed) :
        /\ ParsedDict(Response(i))
        /\ Response(i).info = "dict"
        /\ Response(i).classifiers = "list"
        /\ Len(Response(i).items) = 0
        /\ futures[i].error = "no classifiers"
        /\ Tally("na") = 1
        /\ Tally("nd_unk") = 0

\* C5: whatever one item's fetch yields, read_package returns an outcome
\* for it, the loop consumes every other task, and the final total is the
\* number of identifiers.
C5_NoItemAbortsRun ==
    /\ \A i \in Submitted : futures[i].pc # "raised"
    /\ pc # "shutdown"
    /\ pc \in {"write", "done"} => Tally("total") = Len(pkgs)

\* C6: a 200 response whose body does not parse, or parses without an info
\* field, makes read_package return the reason "no info" and no versions.
C6_BadBodyIsNoInfo ==
    \A i \in Submitted :
        (/\ futures[i].pc \notin {"queued", "get", "status", "info"}
         /\ ~Response(i).transport
         /\ Response(i).status = OK
         /\ \/ ~Response(i).json
            \/ Response(i).top # "dict"
            \/ Response(i).info \in {"missing", "null"})
        => /\ futures[i].pc = "done"
           /\ futures[i].error = "no info"
           /\ futures[i].versions = << >>

BadStatus(r) == ~r.transport /\ r.status # OK

\* C7: a non-200 response makes read_package return the reason "error
\* retrieving metadata" and no versions, and the loop body counts the item
\* in total and na and in no other bucket.
C7_BadStatusIsNa ==
    /\ [](\A i \in Submitted :
            (BadStatus(Response(i)) /\ futures[i].pc \notin {"queued", "get", "status"})
            => /\ futures[i].pc = "done"
               /\ futures[i].error = "error retrieving metadata"
               /\ futures[i].versions = << >>)
    /\ [][\A i \in Submitted :
            (ConsumedNow(i) /\ BadStatus(Response(i)))
            => /\ DOMAIN VERSIONS' = DOMAIN VERSIONS \cup {"total", "na"}
               /\ \A k \in DOMAIN VERSIONS' :
                    VERSIONS'[k] = Tally(k) + (IF k \in {"total", "na"} THEN 1 ELSE 0)]_vars

C7_Witness ==
    \E i \in Range(consumed) :
        /\ BadStatus(Response(i))
        /\ Len(Response(i).items) > 0
        /\ futures[i].error = "error retrieving metadata"
        /\ Tally("na") >= 1

StatusPasses(r) == r.status = OK
InfoPasses(r) == r.json /\ r.top = "dict" /\ r.info \in {"str", "dict"}
ClassifiersPass(r) == r.classifiers = "list" /\ Len(r.items) > 0

GuardOrder == <<"status", "info", "classifiers">>
Reason(g) ==
    IF g = "status" THEN "error retrieving metadata"
    ELSE IF g = "info" THEN "no info" ELSE "no classifiers"
Passes(g, r) ==
    IF g = "status" THEN StatusPasses(r)
    ELSE IF g = "info" THEN InfoPasses(r) ELSE ClassifiersPass(r)

\* C8: the guards run in the order status, info, classifiers; a guard runs
\* only if all earlier ones passed; the recorded reason is that of the first
\* failing guard; get_versions is called only if all three passed.
C8_GuardsShortCircuit ==
    \A i \in Submitted :
        LET f == futures[i]
            r == Response(i)
            n == Len(f.guards)
        IN  /\ n <= 3
            /\ f.guards = SubSeq(GuardOrder, 1, n)
            /\ \A k \in 1..(n - 1) : Passes(GuardOrder[k], r)
            /\ f.error # None =>
                /\ n >= 1
                /\ f.error = Reason(GuardOrder[n])
                /\ ~Passes(GuardOrder[n], r)
                /\ ~f.called
            /\ f.called => n = 3 /\ Passes(GuardOrder[3], r)

C8_Witness ==
    /\ \E i \in Submitted :
        /\ futures[i].error = "no classifiers"
        /\ futures[i].guards = GuardOrder
    /\ \E j \in Submitted :
        /\ futures[j].called
        /\ futures[j].pc = "done"

\* C9: no outcome is both a success and an exclusion: in every PkgInfo that
\* read_package returns, an error other than None goes with an empty version
\* list, and a non-empty version list with the error None.
C9_NeverBoth ==
    /\ \A i \in Submitted :
        futures[i].pc = "done" =>
            /\ futures[i].error # None => futures[i].versions = << >>
            /\ futures[i].versions # << >> => futures[i].error = None
    /\ \A p \in DOMAIN PKG_INFO :
        /\ PKG_INFO[p].error # None => PKG_INFO[p].versions = << >>
        /\ PKG_INFO[p].versions # << >> => PKG_INFO[p].error = None

C9_Witness ==
    /\ \E p \in DOMAIN PKG_INFO :
        PKG_INFO[p].error \in SkippingError /\ PKG_INFO[p].versions = << >>
    /\ \E p \in DOMAIN PKG_INFO :
        PKG_INFO[p].error = None /\ Len(PKG_INFO[p].versions) = 2

\* C10: an outcome with version tags adds exactly 1 to known and exactly 1
\* to the counter of each of its distinct tags, so known is the number of
\* consumed outcomes with a tag and each version bucket is the number of
\* consumed outcomes that contain that version.
C10_KnownAndVersionBuckets ==
    /\ Tally("known") = Cardinality({i \in Range(consumed) : HasVersions(i)})
    /\ \A v \in UNION {Range(futures[i].versions) : i \in Range(consumed)} :
        Tally(v) = Cardinality({i \in Range(consumed) : v \in Range(futures[i].versions)})

\* the classifier's part after its final separator, trimmed
FinalToken(c) == Str(Strip(Split(c)[Len(Split(c))]))

\* C11: for every classifier that matches the pattern, get_versions gives
\* the trimmed token after the classifier's final "::", however many parts
\* the classifier has.
C11_TokenAfterFinalSeparator ==
    returned # NotCalled =>
        /\ returned.state = "returned"
        /\ Range(returned.value) =
            {FinalToken(classifiers[k]) :
                k \in {j \in 1..Len(classifiers) : Matches(classifiers[j])}}

\* C12: the result of get_versions holds no token twice, and as a set it is
\* the same for every permutation of the classifier list and for the list
\* with repeated classifiers removed.
C12_DedupOrderFree ==
    /\ returned.state = "returned" =>
        Cardinality(Range(returned.value)) = Len(returned.value)
    /\ (returned # NotCalled /\ returned2 # NotCalled) =>
        /\ returned.state = returned2.state
        /\ Range(returned.value) = Range(returned2.value)

\* a list with a repeated classifier and two tokens, and a shorter
\* rearrangement of it, whose results are the same set in different order
C12_Witness ==
    /\ Len(classifiers) = 3
    /\ Len(rearranged) = 2
    /\ returned.state = "returned"
    /\ returned2.state = "returned"
    /\ Len(returned.value) = 2
    /\ returned.value # returned2.value

PassesAllGuards(r) ==
    ParsedDict(r) /\ r.info = "dict" /\ r.classifiers = "list" /\ Len(r.items) > 0

NothingMatches(r) == \A k \in 1..Len(r.items) : ~Matches(r.items[k])

\* C13: an item that passes all guards but has no classifier matching the
\* pattern gets an outcome with no error and no versions, and the loop body
\* counts it in total and nd_unk and in no other bucket.
C13_NoMatchIsUnknown ==
    /\ [](\A i \in Submitted :
            (/\ PassesAllGuards(Response(i))
             /\ NothingMatches(Response(i))
             /\ futures[i].pc \notin {"queued"} \cup Running)
            => /\ futures[i].pc = "done"
               /\ futures[i].error = None
               /\ futures[i].versions = << >>)
    /\ [][\A i \in Submitted :
            (/\ ConsumedNow(i)
             /\ PassesAllGuards(Response(i))
             /\ NothingMatches(Response(i)))
            => /\ DOMAIN VERSIONS' = DOMAIN VERSIONS \cup {"total", "nd_unk"}
               /\ \A k \in DOMAIN VERSIONS' :
                    VERSIONS'[k] = Tally(k) + (IF k \in {"total", "nd_unk"} THEN 1 ELSE 0)]_vars

C13_Witness ==
    \E i \in Range(consumed) :
        /\ PassesAllGuards(Response(i))
        /\ NothingMatches(Response(i))
        /\ futures[i].called
        /\ Tally("nd_unk") >= 1
        /\ Tally("na") = 0

\* C14: if the index GET answers a status other than 200, the run aborts:
\* no task is ever submitted, no bucket is ever incremented, and neither
\* output file is written.
C14_IndexFailureAborts ==
    (~index.transport /\ index.status # OK) =>
        /\ pc \in {"index", "aborted"}
        /\ futures = << >>
        /\ VERSIONS = Empty
        /\ PKG_INFO = Empty
        /\ files = Empty

C14_Witness ==
    /\ pc = "aborted"
    /\ ~index.transport
    /\ index.status = 404

\* C15: every submitted task completes and is consumed by the aggregation
\* loop, and the output files are written only after every submitted task
\* has completed and been aggregated.
C15_AllTasksConsumedBeforeWrite ==
    /\ pc \in {"done", "aborted"} =>
        \A i \in Submitted : futures[i].pc \in Finished /\ i \in Range(consumed)
    /\ files # Empty =>
        /\ Len(futures) = Len(pkgs)
        /\ \A i \in Submitted : futures[i].pc \in Finished /\ i \in Range(consumed)

\* C17: read_package touches neither PKG_INFO nor VERSIONS: every change of
\* either is made by the loop body of the main thread, one outcome at a
\* time, in a step in which no task moves.
C17_OnlyLoopMutatesTallies ==
    [][(PKG_INFO' # PKG_INFO \/ VERSIONS' # VERSIONS) =>
        /\ pc = "loop"
        /\ futures' = futures
        /\ \E i \in Submitted : ConsumedNow(i)]_vars

\* a task is in the middle of read_package after the loop body has already
\* changed the tallies
C17_Witness ==
    /\ Len(consumed) >= 1
    /\ VERSIONS # Empty
    /\ \E j \in Submitted : futures[j].pc \in {"status", "info", "classifiers", "versions"}

\* the future of identifier p that the loop body consumed last
LastConsumed(p) ==
    LET ks == {k \in 1..Len(consumed) : futures[consumed[k]].pkg = p}
    IN  consumed[CHOOSE k \in ks : \A j \in ks : j <= k]

\* C18: every occurrence of a duplicated identifier is its own task and is
\* counted in the tally once; PKG_INFO ends with one entry per distinct
\* identifier (at most total many), holding the outcome consumed last.
C18_DuplicatesTallied ==
    /\ pc \in {"loop", "shutdown", "write", "done"} => Len(futures) = Len(pkgs)
    /\ Tally("total") = Len(consumed)
    /\ pc \in {"write", "done"} =>
        /\ DOMAIN PKG_INFO = Range(pkgs)
        /\ Cardinality(DOMAIN PKG_INFO) <= Tally("total")
        /\ \A p \in DOMAIN PKG_INFO :
            PKG_INFO[p] = PkgInfo(futures[LastConsumed(p)].versions,
                                  futures[LastConsumed(p)].error)

RunningTasks == {j \in Submitted : futures[j].pc \in Running}

\* C16: at every moment at most MAX_PROCESSES read_package tasks are
\* executing, however many were submitted; the others wait in the queue.
C16_BoundedFanOut == Cardinality(RunningTasks) <= MAX_PROCESSES

\* all workers are busy and a submitted task is waiting
C16_Witness ==
    /\ Len(futures) > MAX_PROCESSES
    /\ Cardinality(RunningTasks) = MAX_PROCESSES
    /\ \E j \in Submitted : futures[j].pc = "queued"

\* C19: in Example 1 each process writes only its own slot of results, and
\* once all processes are joined results[i] = 2*data[i] for every i, index 0
\* included, with no slot left None, in every interleaving.
C19_EachSlotDoubled ==
    /\ [][\A k \in 1..Len(procs) :
            (procs'[k] # procs[k] /\ results' # results) =>
                \A j \in 1..DataLen :
                    j # procs[k].index + 1 => results'[j] = results[j]]_vars
    /\ [](mpc \in {"print", "done"} =>
            \A j \in 1..DataLen : results[j] = Value(2 * data[j]))

C19_Witness ==
    /\ mpc = "done"
    /\ \A k \in 1..DataLen : procs[k].joined
    /\ results[1] = Value(0)
    /\ results[DataLen] = Value(14)

====
